---- MODULE Spec2Model ----
\* r0: the two RAM initialisation routines of src/src/lib.rs, init_data and
\* zero_bss, over a byte-addressed memory, driven by the startup code that
\* calls them (the before_main of the module documentation).
EXTENDS Integers, Sequences, FiniteSets, TLC

\* ------------------------------------------------------------------ bounds
\* Bytes of RAM/flash the linker sections may occupy: section pointers are
\* drawn from 0..MemSize.
MemSize == 16

\* --------------------------------------------------------- element types T
\* The element types a caller may try to instantiate init_data::<T> and
\* zero_bss::<T> with: the unsigned words, a signed word, the unit type (),
\* the array [u8; 3], and Cell<u32> (which is not Copy).
Types == {"u8", "u16", "u32", "u64", "u128", "i32", "unit", "u8x3", "cell_u32"}

\* T: Copy
IsCopy(t) == t # "cell_u32"

\* mem::size_of::<T>()
SizeOf(t) ==
    CASE t = "u8" -> 1
      [] t = "u16" -> 2
      [] t = "u32" -> 4
      [] t = "u64" -> 8
      [] t = "u128" -> 16
      [] t = "i32" -> 4
      [] t = "unit" -> 0
      [] t = "u8x3" -> 3
      [] t = "cell_u32" -> 4

\* mem::align_of::<T>(): the integers are aligned to their size, () and
\* [u8; 3] to one byte.
AlignOf(t) ==
    CASE t = "unit" -> 1
      [] t = "u8x3" -> 1
      [] OTHER -> SizeOf(t)

\* The bound on T of both functions, `where T: Copy`: the instantiations the
\* build accepts.
Accepts(t) == IsCopy(t)

\* ------------------------------------------------------------------ memory
\* Byte addresses. The sections live in 0..MemSize-1; the bytes above them
\* are the memory that follows the sections.
Addr == 0 .. (MemSize + SizeOf("u128") - 1)

\* Memory contents at reset: a ramp of pairwise distinct non-zero bytes,
\* all-ones, and all-zero.
InitMems ==
    { [a \in Addr |-> a + 1],
      [a \in Addr |-> 255],
      [a \in Addr |-> 0] }

\* ptr::read(p): the size_of::<T>() bytes at p, uninterpreted.
ReadElem(m, p, W) == [i \in 0 .. (W - 1) |-> m[p + i]]

\* ptr::write(p, v) / ptr::write_volatile(p, v): stores the bytes of v at p.
WriteElem(m, p, v, W) ==
    [a \in Addr |-> IF p <= a /\ a < p + W THEN v[a - p] ELSE m[a]]

\* mem::zeroed::<T>(): the all-zero bit pattern.
Zeroed(W) == [i \in 0 .. (W - 1) |-> 0]

\* p.offset(1) on a *mut T / *const T (the mutant advances by two elements).
OffsetSkip(p, W) == p + 2 * W

Offset(p, W) == p + W

\* ------------------------------------------------------------------- calls
\* Pointers that are T aligned.
Ptrs(t) == {a \in 0 .. MemSize : a % AlignOf(t) = 0}

\* Number of loop iterations of `while s < e { ...; s = s.offset(1) }` when
\* it terminates.
Iterations(s, e, W) ==
    IF e <= s \/ W = 0 THEN 0 ELSE ((e - s) + W - 1) \div W

\* The calls of one element type whose accesses stay inside the sections.
\* The start pointers are T aligned (an unaligned ptr::read/ptr::write is
\* undefined behaviour); the end pointer is any address.
InitDataCalls(t, ends) ==
    { c \in [op : {"init_data"}, s : Ptrs(t), e : ends, si : Ptrs(t)] :
        /\ c.s + Iterations(c.s, c.e, SizeOf(t)) * SizeOf(t) <= MemSize
        /\ c.si + Iterations(c.s, c.e, SizeOf(t)) * SizeOf(t) <= MemSize }

ZeroBssCalls(t, ends) ==
    { c \in [op : {"zero_bss"}, s : Ptrs(t), e : ends, si : {0}] :
        c.s + Iterations(c.s, c.e, SizeOf(t)) * SizeOf(t) <= MemSize }

\* before_main of the module documentation: zero_bss and init_data on the
\* u32 linker symbols (all ALIGN(4)), in either order.
BeforeMain ==
    { <<z, d>> : z \in ZeroBssCalls("u32", Ptrs("u32")),
                 d \in InitDataCalls("u32", Ptrs("u32")) }
    \cup
    { <<d, z>> : z \in ZeroBssCalls("u32", Ptrs("u32")),
                 d \in InitDataCalls("u32", Ptrs("u32")) }

\* The startup programs: one call of either function at any accepted element
\* type, or before_main.
Programs(t) ==
    { <<c>> : c \in InitDataCalls(t, 0 .. MemSize) \cup ZeroBssCalls(t, 0 .. MemSize) }
    \cup (IF t = "u32" THEN BeforeMain ELSE {})

\* ------------------------------------------------------------------- state
VARIABLES
    T,        \* the element type of the instantiation
    calls,    \* the startup program: the calls it makes, in order
    ci,       \* index of the next call of the program
    pc,       \* "idle", or the function being executed
    mem,      \* memory, byte by byte
    sdata, edata, sidata,   \* init_data's parameters (sdata, sidata are mut)
    sbss, ebss,             \* zero_bss's parameters (sbss is mut)
    memStart, \* history: memory when the program started
    memCall,  \* history: memory when the running/last call was made
    trace,    \* history: the loads and stores of the running/last call
    iters     \* history: loop iterations of the running/last call

vars == <<T, calls, ci, pc, mem, sdata, edata, sidata, sbss, ebss,
          memStart, memCall, trace, iters>>

W == SizeOf(T)

\* The model stops following a loop after this many iterations; a loop that
\* terminates needs at most MemSize of them.
MaxIters == MemSize + 2

Load(p) == [kind |-> "load", addr |-> p, volatile |-> FALSE]
Store(p, vol) == [kind |-> "store", addr |-> p, volatile |-> vol]

Init ==
    /\ T \in {t \in Types : Accepts(t)}
    /\ calls \in Programs(T)
    /\ ci = 1
    /\ pc = "idle"
    /\ mem \in InitMems
    /\ sdata = 0 /\ edata = 0 /\ sidata = 0
    /\ sbss = 0 /\ ebss = 0
    /\ memStart = mem
    /\ memCall = mem
    /\ trace = <<>>
    /\ iters = 0

\* ---------------------------------------------------------------- init_data
\* `while sdata < edata` (the mutant: `<=`).
InitDataCondLe(sd, ed) == sd <= ed

InitDataCond(sd, ed) == sd < ed

\* `sidata = sidata.offset(1)` (the mutant forgets to advance the source).
InitDataNextSrcStuck(si, w) == si

InitDataNextSrc(si, w) == Offset(si, w)

\* `ptr::write(sdata, ptr::read(sidata))` (the mutant stores the bytes of
\* the element in reverse order).
InitDataBodySwapped(m, sd, si, w) ==
    WriteElem(m, sd, [i \in 0 .. (w - 1) |-> ReadElem(m, si, w)[w - 1 - i]], w)

InitDataBody(m, sd, si, w) == WriteElem(m, sd, ReadElem(m, si, w), w)

\* init_data as a whole, at element size w: the memory it leaves.
RECURSIVE init_data(_, _, _, _, _)
init_data(m, sd, ed, si, w) ==
    IF InitDataCond(sd, ed)
    THEN init_data(InitDataBody(m, sd, si, w), Offset(sd, w), ed,
                   InitDataNextSrc(si, w), w)
    ELSE m

CallInitData ==
    /\ pc = "idle"
    /\ ci <= Len(calls)
    /\ calls[ci].op = "init_data"
    /\ pc' = "init_data"
    /\ sdata' = calls[ci].s
    /\ edata' = calls[ci].e
    /\ sidata' = calls[ci].si
    /\ memCall' = mem
    /\ trace' = <<>>
    /\ iters' = 0
    /\ UNCHANGED <<T, calls, ci, mem, sbss, ebss, memStart>>

InitDataLoop ==
    /\ pc = "init_data"
    /\ InitDataCond(sdata, edata)
    /\ iters < MaxIters
    /\ mem' = InitDataBody(mem, sdata, sidata, W)
    /\ trace' = trace \o <<Load(sidata), Store(sdata, FALSE)>>
    /\ sdata' = Offset(sdata, W)
    /\ sidata' = InitDataNextSrc(sidata, W)
    /\ iters' = iters + 1
    /\ UNCHANGED <<T, calls, ci, pc, edata, sbss, ebss, memStart, memCall>>

InitDataReturn ==
    /\ pc = "init_data"
    /\ ~InitDataCond(sdata, edata)
    /\ pc' = "idle"
    /\ ci' = ci + 1
    /\ UNCHANGED <<T, calls, mem, sdata, edata, sidata, sbss, ebss,
                   memStart, memCall, trace, iters>>

\* ----------------------------------------------------------------- zero_bss
\* `while sbss < ebss` (the mutants: `<=`, and `!=` against the last
\* element, which stops one element early).
ZeroBssCondLe(sb, eb, w) == sb <= eb

ZeroBssCondShort(sb, eb, w) == sb + w < eb

ZeroBssCond(sb, eb, w) == sb < eb

\* `sbss = sbss.offset(1)` (the mutant forgets to advance).
ZeroBssNextStuck(sb, w) == sb

ZeroBssNext(sb, w) == Offset(sb, w)

\* `ptr::write_volatile(sbss, mem::zeroed())`
ZeroBssBody(m, sb, w) == WriteElem(m, sb, Zeroed(w), w)

\* zero_bss as a whole, at element size w: the memory it leaves.
RECURSIVE zero_bss(_, _, _, _)
zero_bss(m, sb, eb, w) ==
    IF ZeroBssCond(sb, eb, w)
    THEN zero_bss(ZeroBssBody(m, sb, w), ZeroBssNext(sb, w), eb, w)
    ELSE m

CallZeroBss ==
    /\ pc = "idle"
    /\ ci <= Len(calls)
    /\ calls[ci].op = "zero_bss"
    /\ pc' = "zero_bss"
    /\ sbss' = calls[ci].s
    /\ ebss' = calls[ci].e
    /\ memCall' = mem
    /\ trace' = <<>>
    /\ iters' = 0
    /\ UNCHANGED <<T, calls, ci, mem, sdata, edata, sidata, memStart>>

ZeroBssLoop ==
    /\ pc = "zero_bss"
    /\ ZeroBssCond(sbss, ebss, W)
    /\ iters < MaxIters
    /\ mem' = ZeroBssBody(mem, sbss, W)
    /\ trace' = Append(trace, Store(sbss, TRUE))
    /\ sbss' = ZeroBssNext(sbss, W)
    /\ iters' = iters + 1
    /\ UNCHANGED <<T, calls, ci, pc, ebss, sdata, edata, sidata, memStart, memCall>>

ZeroBssReturn ==
    /\ pc = "zero_bss"
    /\ ~ZeroBssCond(sbss, ebss, W)
    /\ pc' = "idle"
    /\ ci' = ci + 1
    /\ UNCHANGED <<T, calls, mem, sdata, edata, sidata, sbss, ebss,
                   memStart, memCall, trace, iters>>

\* --------------------------------------------------------------------- spec
Next ==
    \/ CallInitData
    \/ InitDataLoop
    \/ InitDataReturn
    \/ CallZeroBss
    \/ ZeroBssLoop
    \/ ZeroBssReturn

Spec == Init /\ [][Next]_vars

\* Both functions are straight-line loops that run to completion: a call
\* that can take a step takes it.
FairSpec == Spec /\ WF_vars(Next)

\* --------------------------------------------------------------- properties
\* The call that is running, or that returned last.
HasCall == pc # "idle" \/ ci > 1

Cur == IF pc = "idle" THEN calls[ci - 1] ELSE calls[ci]

\* The last call has returned, and it was a call of op.
Returned(op) == pc = "idle" /\ ci > 1 /\ calls[ci - 1].op = op

\* [c.s, c.e) is a range of N >= 0 whole elements of T.
Whole(c) == W > 0 /\ c.s <= c.e /\ (c.e - c.s) % W = 0

NElems(c) == (c.e - c.s) \div W

\* The half-open byte ranges [a1, b1) and [a2, b2) share no byte.
Disjoint(a1, b1, a2, b2) == b1 <= a1 \/ b2 <= a2 \/ b1 <= a2 \/ b2 <= a1

\* The source range of an init_data call ends here.
SrcEnd(c) == c.si + (c.e - c.s)

\* Destination element i of call c holds what source element i held when
\* the call was made, and source element i is unchanged.
CopiedElem(c, i) ==
    /\ ReadElem(mem, c.s + i * W, W) = ReadElem(memCall, c.si + i * W, W)
    /\ ReadElem(mem, c.si + i * W, W) = ReadElem(memCall, c.si + i * W, W)

\* C1. Copy correctness: once init_data has returned from a call whose
\* destination is a range of N > 0 elements that does not overlap the source
\* range, every destination element equals the source element of the same
\* index as it was when the call was made, and the source is unchanged.
C1_CopyCorrect ==
    (Returned("init_data") /\ Whole(Cur) /\ NElems(Cur) > 0
        /\ Disjoint(Cur.s, Cur.e, Cur.si, SrcEnd(Cur)))
    => \A i \in 0 .. (NElems(Cur) - 1) : CopiedElem(Cur, i)

C1_Witness ==
    /\ Returned("init_data") /\ Whole(Cur) /\ NElems(Cur) >= 3
    /\ Disjoint(Cur.s, Cur.e, Cur.si, SrcEnd(Cur))
    /\ \A i \in 0 .. (NElems(Cur) - 1) :
         ReadElem(memCall, Cur.s + i * W, W) # ReadElem(memCall, Cur.si + i * W, W)

\* C2. Zero correctness: once zero_bss has returned from a call on a range of
\* N > 0 elements, every byte of the range is zero, whatever it held before.
C2_ZeroCorrect ==
    (Returned("zero_bss") /\ Whole(Cur) /\ NElems(Cur) > 0)
    => \A a \in Cur.s .. (Cur.e - 1) : mem[a] = 0

C2_Witness ==
    /\ Returned("zero_bss") /\ Whole(Cur) /\ NElems(Cur) >= 3
    /\ \A a \in Cur.s .. (Cur.e - 1) : memCall[a] = 255

\* C3. Copy no-op on an empty range: during and after a call of init_data
\* with sdata = edata there has been no load and no store, and memory is what
\* it was when the call was made.
C3_EmptyCopyNoAccess ==
    (HasCall /\ Cur.op = "init_data" /\ Cur.s = Cur.e)
    => (trace = <<>> /\ mem = memCall /\ iters = 0)

C3_Witness ==
    /\ Returned("init_data") /\ Cur.s = Cur.e
    /\ W > 0
    /\ ReadElem(memCall, Cur.s, W) # ReadElem(memCall, Cur.si, W)

\* C4. Writes stay inside the half-open range: after a call of init_data or
\* zero_bss with start <= end and both pointers T aligned, every byte outside
\* [start, end) holds what it held when the call was made.
C4_WritesInsideRange ==
    (pc = "idle" /\ ci > 1 /\ Cur.s <= Cur.e
        /\ Cur.s % AlignOf(T) = 0 /\ Cur.e % AlignOf(T) = 0)
    => \A a \in Addr : (a < Cur.s \/ a >= Cur.e) => mem[a] = memCall[a]

\* C5. Non-overlap boundary: once init_data has returned from a call whose
\* source range ends exactly where the destination starts, or whose
\* destination ends exactly where the source starts, all N > 0 elements are
\* copied and no source element is changed.
C5_AdjacentCopy ==
    (Returned("init_data") /\ Whole(Cur) /\ NElems(Cur) > 0
        /\ (SrcEnd(Cur) = Cur.s \/ Cur.e = Cur.si))
    => /\ \A i \in 0 .. (NElems(Cur) - 1) : CopiedElem(Cur, i)
       /\ \A a \in Cur.si .. (SrcEnd(Cur) - 1) : mem[a] = memCall[a]

C5_Witness ==
    /\ Returned("init_data") /\ Whole(Cur) /\ NElems(Cur) >= 2
    /\ Cur.e = Cur.si
    /\ mem # memCall

\* C6. Independence of element width: a call on a 4-byte aligned byte range
\* whose length is a multiple of 4 leaves, run with 32-bit elements, the
\* memory the same call leaves run with 8-bit elements, and the other way
\* round; for init_data and for zero_bss.
FourAligned(c) == c.s % 4 = 0 /\ c.e % 4 = 0 /\ c.si % 4 = 0 /\ c.s <= c.e

C6_WidthIndependent ==
    /\ (Returned("init_data") /\ FourAligned(Cur) /\ T = "u32")
        => mem = init_data(memCall, Cur.s, Cur.e, Cur.si, SizeOf("u8"))
    /\ (Returned("init_data") /\ FourAligned(Cur) /\ T = "u8")
        => mem = init_data(memCall, Cur.s, Cur.e, Cur.si, SizeOf("u32"))
    /\ (Returned("zero_bss") /\ FourAligned(Cur) /\ T = "u32")
        => mem = zero_bss(memCall, Cur.s, Cur.e, SizeOf("u8"))
    /\ (Returned("zero_bss") /\ FourAligned(Cur) /\ T = "u8")
        => mem = zero_bss(memCall, Cur.s, Cur.e, SizeOf("u32"))

C6_Witness ==
    /\ Returned("init_data") /\ FourAligned(Cur) /\ T = "u32"
    /\ NElems(Cur) >= 2
    /\ mem # memCall
    /\ mem = init_data(memCall, Cur.s, Cur.e, Cur.si, SizeOf("u8"))

\* C7. Order independence: when before_main has made both calls and the
\* zero_bss range shares no byte with the destination or the source range of
\* init_data (which do not overlap each other), memory is what the two
\* functions leave when run in the other order, and in it the bss range is
\* zero, the data range holds the original source, and every other byte is
\* untouched.
BothReturned == pc = "idle" /\ Len(calls) = 2 /\ ci = 3

ZCall == IF calls[1].op = "zero_bss" THEN calls[1] ELSE calls[2]

DCall == IF calls[1].op = "init_data" THEN calls[1] ELSE calls[2]

RangesDisjoint ==
    /\ Disjoint(ZCall.s, ZCall.e, DCall.s, DCall.e)
    /\ Disjoint(ZCall.s, ZCall.e, DCall.si, SrcEnd(DCall))
    /\ Disjoint(DCall.s, DCall.e, DCall.si, SrcEnd(DCall))

OtherOrder ==
    IF calls[1].op = "zero_bss"
    THEN zero_bss(init_data(memStart, DCall.s, DCall.e, DCall.si, W),
                  ZCall.s, ZCall.e, W)
    ELSE init_data(zero_bss(memStart, ZCall.s, ZCall.e, W),
                   DCall.s, DCall.e, DCall.si, W)

Initialised ==
    [a \in Addr |->
        IF ZCall.s <= a /\ a < ZCall.e THEN 0
        ELSE IF DCall.s <= a /\ a < DCall.e THEN memStart[DCall.si + (a - DCall.s)]
        ELSE memStart[a]]

C7_OrderIndependent ==
    (BothReturned /\ RangesDisjoint) => (mem = OtherOrder /\ mem = Initialised)

C7_Witness ==
    /\ BothReturned /\ RangesDisjoint
    /\ calls[1].op = "init_data"
    /\ NElems(ZCall) >= 1 /\ NElems(DCall) >= 1
    /\ \E a \in ZCall.s .. (ZCall.e - 1) : memStart[a] # 0
    /\ \E a \in DCall.s .. (DCall.e - 1) : memStart[a] # mem[a]

\* C8. Termination: a call made with start <= end, T aligned pointers and a
\* non-zero element size returns, and when [start, end) is N whole elements
\* the loop has run at most N times while the call runs and exactly N times
\* when it has returned.
Contract(c) ==
    /\ W > 0
    /\ c.s <= c.e
    /\ c.s % AlignOf(T) = 0 /\ c.e % AlignOf(T) = 0 /\ c.si % AlignOf(T) = 0

C8_Terminates ==
    /\ (pc # "idle" /\ Contract(Cur)) ~> (pc = "idle")
    /\ []((HasCall /\ Contract(Cur) /\ Whole(Cur)) => iters <= NElems(Cur))
    /\ []((pc = "idle" /\ ci > 1 /\ Contract(Cur) /\ Whole(Cur))
            => iters = NElems(Cur))

C8_Witness ==
    /\ pc = "idle" /\ ci > 1 /\ Contract(Cur) /\ Whole(Cur)
    /\ Cur.op = "zero_bss"
    /\ iters = NElems(Cur) /\ iters >= 3

\* The fixed-width unsigned integers.
WordTypes == {"u8", "u16", "u32", "u64", "u128"}

\* C9. Word-width constraint: every element type init_data or zero_bss is
\* instantiated with is one of the unsigned 8-, 16-, 32-, 64- and 128-bit
\* integers, so its size is not zero.
C9_OnlyWordTypes == HasCall => (T \in WordTypes /\ SizeOf(T) > 0)

\* C10. Traversal order and exactly-once stores: in a call on elements of
\* non-zero size, the k-th iteration loads source element k and then stores
\* destination element k (init_data), or stores element k (zero_bss), and
\* nothing else is accessed; on a range of N whole elements the call returns
\* after the store to element N - 1.
C10_TraversalOrder ==
    (HasCall /\ W > 0) =>
      /\ Cur.op = "init_data" =>
           /\ Len(trace) = 2 * iters
           /\ \A k \in 0 .. (iters - 1) :
                /\ trace[2 * k + 1] = Load(Cur.si + k * W)
                /\ trace[2 * k + 2] = Store(Cur.s + k * W, FALSE)
      /\ Cur.op = "zero_bss" =>
           /\ Len(trace) = iters
           /\ \A k \in 0 .. (iters - 1) :
                trace[k + 1] = Store(Cur.s + k * W, TRUE)
      /\ (pc = "idle" /\ Whole(Cur)) => iters = NElems(Cur)

C10_Witness ==
    /\ Returned("init_data") /\ Whole(Cur) /\ NElems(Cur) >= 3
    /\ Len(trace) = 2 * NElems(Cur)
    /\ trace[Len(trace)] = Store(Cur.e - W, FALSE)

====
